---- MODULE Spec2Model ----
(***************************************************************************)
(* A model of the course-progress aggregation engine (getUserEnrolments)   *)
(* and of the course routes of alexthomas93/courses.                       *)
(*                                                                         *)
(*   Spec       getUserEnrolments over a small graph store                 *)
(*   SpecOrder  getUserEnrolments over one course whose ordering relation  *)
(*              ranges over every injective next-lesson relation           *)
(*   SpecRoute  the GET handlers of the course and category routers        *)
(***************************************************************************)
EXTENDS Integers, Sequences, FiniteSets, TLC

VARIABLES
    users,          \* store: the ids of the :User nodes
    catalog,        \* store: course slug -> the course's module/lesson graph
    enrolmentNodes, \* store: the enrolment nodes (user, course, sub-type, progress)
    id,             \* getUserEnrolments: the argument
    pc,             \* getUserEnrolments: position in the function body
    reads,          \* getUserEnrolments: number of read() calls issued
    readResult,     \* "pending" | "ok" | "error": how the read() promise settled
    records,        \* res.records
    user,           \* const user
    enrolments,     \* const enrolments (mutated in place by sortCourse)
    k,              \* position of the nested for loops, an index into Work
    sortLog,        \* the <<key, index>> pairs sortCourse was called on, in order
    outcome,        \* what the returned promise settled with
    route,          \* route handler: which route is being handled
    rpc,            \* route handler: position in the handler body
    params,         \* route handler: req.params
    found,          \* route handler: what the awaited lookups produced
    nextCalls,      \* route handler: the arguments next() was called with, in order
    renders,        \* route handler: number of res.render calls
    converts        \* route handler: number of asciidoc conversions started

engineVars == <<users, catalog, enrolmentNodes, id, pc, reads, readResult,
                records, user, enrolments, k, sortLog, outcome>>
routeVars == <<route, rpc, params, found, nextCalls, renders, converts>>
vars == <<engineVars, routeVars>>

----------------------------------------------------------------------------
(* Bounds *)

MaxCourses == 2
MaxEnrolments == 2
MaxLessons == 3

----------------------------------------------------------------------------
(* Values *)

Null == "null"

STATUS_AVAILABLE == "available"
STATUS_ENROLLED == "enrolled"
STATUS_COMPLETED == "completed"
StatusLabels == <<STATUS_AVAILABLE, STATUS_COMPLETED, STATUS_ENROLLED>>

CourseName == <<"c1", "c2", "c3", "c4">>
LessonName == <<"A", "B", "C", "D", "E", "F">>
ModuleNames == <<"M1", "M2">>

CourseSlugs == {CourseName[i] : i \in 1..MaxCourses}
StoreUsers == {"u1", "u2"}
RequestIds == {"u1", "ghost"}

NoEnrolment == [user |-> Null, course |-> Null, completed |-> FALSE, progress |-> FALSE]

Range(s) == {s[i] : i \in DOMAIN s}

RECURSIVE Concat(_)
Concat(ss) == IF ss = <<>> THEN <<>> ELSE Head(ss) \o Concat(Tail(ss))

RECURSIVE SetToSeq(_)
SetToSeq(S) == IF S = {} THEN <<>>
               ELSE LET x == CHOOSE y \in S : TRUE IN <<x>> \o SetToSeq(S \ {x})

Bool(b) == IF b THEN "true" ELSE "false"

\* The subsets of S with at most n elements.
RECURSIVE SubsetsUpTo(_, _)
SubsetsUpTo(S, n) ==
    IF n = 0 THEN {{}}
    ELSE LET P == SubsetsUpTo(S, n - 1) IN P \cup {p \cup {x} : p \in P, x \in S}

----------------------------------------------------------------------------
(* The Order Resolver, sortCourse.  Its code is in utils, outside the      *)
(* files at hand; it is modelled from section 4.2 of the specification.    *)

\* Step 1: the lessons of all modules, each with a back-reference to its module.
FlattenLessons(course) ==
    Concat([i \in DOMAIN course.modules |->
              [j \in DOMAIN course.modules[i].lessons |->
                 [lesson |-> course.modules[i].lessons[j],
                  module |-> course.modules[i].slug]]])

LessonSlugsOf(course) == {e.lesson.slug : e \in Range(FlattenLessons(course))}

LessonBySlug(course, slug) ==
    (CHOOSE e \in Range(FlattenLessons(course)) : e.lesson.slug = slug).lesson

\* Step 2: the lessons with no `previous`.
ChainHeads(course) ==
    {e.lesson.slug : e \in {x \in Range(FlattenLessons(course)) : x.lesson.previous = Null}}

\* Step 3: walk the chain from `cur` via `next`; a revisit is a cycle, a `next`
\* outside the course's lessons is a lesson whose module is missing.
RECURSIVE WalkChain(_, _, _)
WalkChain(course, cur, visited) ==
    IF cur \in Range(visited) THEN [ok |-> FALSE, order |-> visited]
    ELSE LET seen == Append(visited, cur)
             nxt == LessonBySlug(course, cur).next
         IN IF nxt = Null THEN [ok |-> TRUE, order |-> seen]
            ELSE IF nxt \notin LessonSlugsOf(course) THEN [ok |-> FALSE, order |-> seen]
            ELSE WalkChain(course, nxt, seen)

PosIn(order, slug) == CHOOSE i \in DOMAIN order : order[i] = slug

\* Step 5, first half: a module's lessons as the subsequence of the chain order.
OrderLessons(lessons, order) ==
    SortSeq(lessons, LAMBDA a, b : PosIn(order, a.slug) < PosIn(order, b.slug))

EarliestLesson(m, order) ==
    CHOOSE p \in {PosIn(order, l.slug) : l \in Range(m.lessons)} :
        \A q \in {PosIn(order, l.slug) : l \in Range(m.lessons)} : p <= q

\* A step 4 that leaves the modules in the order they came in.
ModuleOrderUnsorted(modules, order) == modules

\* Step 4: modules by their earliest lesson; modules with no lessons keep their
\* relative position, after all the others.
ModuleOrder(modules, order) ==
    SortSeq(SelectSeq(modules, LAMBDA m : m.lessons # <<>>),
            LAMBDA a, b : EarliestLesson(a, order) < EarliestLesson(b, order))
    \o SelectSeq(modules, LAMBDA m : m.lessons = <<>>)

\* resolve(course): [ok |-> FALSE] is the data-integrity fault (the call throws),
\* [ok |-> TRUE, course |-> c] the course with modules and lessons reordered.
sortCourse(course) ==
    IF FlattenLessons(course) = <<>> THEN [ok |-> TRUE, course |-> course]
    ELSE IF Cardinality(ChainHeads(course)) # 1 THEN [ok |-> FALSE, course |-> course]
    ELSE LET w == WalkChain(course, CHOOSE h \in ChainHeads(course) : TRUE, <<>>)
         IN IF ~w.ok \/ Len(w.order) # Len(FlattenLessons(course))
            THEN [ok |-> FALSE, course |-> course]
            ELSE [ok |-> TRUE,
                  course |-> [course EXCEPT !.modules =
                      LET ms == ModuleOrder(course.modules, w.order)
                      IN [i \in DOMAIN ms |->
                            [ms[i] EXCEPT !.lessons = OrderLessons(ms[i].lessons, w.order)]]]]

----------------------------------------------------------------------------
(* The graph store *)

\* The module/lesson graph of one course as the pattern comprehensions return
\* it: modules mods and lessons ls in the store's order, NEXT_LESSON edges nxt,
\* HAS_LESSON edges assign.  `previous` and `next` are the [0] of the
\* neighbour lists, null when empty.
MakeGraph(mods, ls, nxt, assign) ==
    [i \in DOMAIN mods |->
       [slug |-> mods[i],
        lessons |->
          LET mine == SelectSeq(ls, LAMBDA s : assign[s] = mods[i])
          IN [j \in DOMAIN mine |->
                [slug |-> mine[j],
                 previous |-> IF \E p \in DOMAIN nxt : nxt[p] = mine[j]
                              THEN CHOOSE p \in DOMAIN nxt : nxt[p] = mine[j]
                              ELSE Null,
                 next |-> nxt[mine[j]]]]]]

Foreign == "X"  \* a lesson of no module of this course

Lessons(n) == {LessonName[j] : j \in 1..n}

\* NEXT_LESSON edges with at most one edge into and out of every lesson.
NextRelations(n) ==
    {f \in [Lessons(n) -> Lessons(n) \cup {Null, Foreign}] :
        \A a, b \in Lessons(n) : (a # b /\ f[a] # Null) => f[a] # f[b]}

\* Every graph of at most MaxLessons lessons in two modules.  The store's
\* order is the order of the names; the chain is any order of them.
AllGraphs ==
    UNION {{MakeGraph(ModuleNames, [j \in 1..n |-> LessonName[j]], f, g) :
               f \in NextRelations(n), g \in [Lessons(n) -> Range(ModuleNames)]}
           : n \in 0..MaxLessons}

\* chain C -> B -> A, M1 = {A, B}, M2 = {C}: stored as M1 = [A, B], M2 = [C]
GraphLinear ==
    MakeGraph(ModuleNames, <<"A", "B", "C">>,
              [s \in Lessons(3) |-> CASE s = "C" -> "B" [] s = "B" -> "A" [] OTHER -> Null],
              [s \in Lessons(3) |-> IF s = "C" THEN "M2" ELSE "M1"])
\* cycle A -> B -> A
GraphCycle ==
    MakeGraph(ModuleNames, <<"A", "B">>,
              [s \in Lessons(2) |-> IF s = "A" THEN "B" ELSE "A"],
              [s \in Lessons(2) |-> "M1"])
\* modules without lessons
GraphNoLessons == MakeGraph(ModuleNames, <<>>, <<>>, <<>>)

\* M1 = {A, B}, M2 = {C, D}, chain A -> B -> C -> D, stored as M2 = [D, C],
\* M1 = [B, A]
GraphCrossModule ==
    MakeGraph(<<"M2", "M1">>, <<"D", "B", "C", "A">>,
              [s \in Lessons(4) |->
                 CASE s = "A" -> "B" [] s = "B" -> "C" [] s = "C" -> "D" [] OTHER -> Null],
              [s \in Lessons(4) |-> IF s \in {"A", "B"} THEN "M1" ELSE "M2"])

SampleGraphs == {GraphLinear, GraphCycle, GraphNoLessons}

\* The enrolment nodes a store may hold for the courses cs: any of the
\* requesting user's, and completed ones of another user.
EnrolmentNodes(cs) ==
    [user : {"u1"}, course : cs, completed : BOOLEAN, progress : BOOLEAN]
    \cup [user : {"u2"}, course : cs, completed : {TRUE}, progress : {TRUE}]

----------------------------------------------------------------------------
(* The query of getUserEnrolments *)

\* An OPTIONAL MATCH of the user: a row even when no user has the id.
MatchUserOptional(uid) == {uid}

\* MATCH (u:User {id: $id})
MatchUser(uid) == {u \in users : u = uid}

\* A plain MATCH of the enrolment: no row for a course without one.
MatchEnrolmentInner(u, c) ==
    {e \in enrolmentNodes : e.user = u /\ e.course = c}

\* OPTIONAL MATCH (u)-[:HAS_ENROLMENT]->(e)-[:FOR_COURSE]->(c)
MatchEnrolment(u, c) ==
    LET es == {e \in enrolmentNodes : e.user = u /\ e.course = c}
    IN IF es = {} THEN {NoEnrolment} ELSE es

\* A CASE that also reads the completion flags.
ClassifyByProgress(e) ==
    IF e = NoEnrolment THEN STATUS_AVAILABLE
    ELSE IF e.completed \/ e.progress THEN STATUS_COMPLETED
    ELSE STATUS_ENROLLED

\* CASE WHEN e IS NULL ... WHEN e:CompletedEnrolment ... ELSE ... END as status
Classify(e) ==
    IF e = NoEnrolment THEN STATUS_AVAILABLE
    ELSE IF e.completed THEN STATUS_COMPLETED
    ELSE STATUS_ENROLLED

\* c { .*, createdAt, completed, completedAt, modules: [...] } AS course
ProjectCourse(c, e) ==
    [slug |-> c,
     createdAt |-> IF e = NoEnrolment THEN Null ELSE "t",
     completed |-> IF e = NoEnrolment THEN Null ELSE Bool(e.completed),
     modules |->
       [i \in DOMAIN catalog[c] |->
          [slug |-> catalog[c][i].slug,
           completed |-> e.progress,
           lessons |->
             [j \in DOMAIN catalog[c][i].lessons |->
                [slug |-> catalog[c][i].lessons[j].slug,
                 completed |-> e.progress,
                 previous |-> catalog[c][i].lessons[j].previous,
                 next |-> catalog[c][i].lessons[j].next]]]]]

\* One row per (user, course, enrolment) match, with its status.
Rows(u) ==
    UNION {{[course |-> c, e |-> e, status |-> Classify(e)] : e \in MatchEnrolment(u, c)}
           : c \in DOMAIN catalog}

\* WITH user, status, collect(course) AS courses
\* WITH user, collect([status, courses]) AS pairs
\* The order of the rows is the store's; the formulas below read none of it.
Pairs(rows) ==
    LET present == SelectSeq(StatusLabels, LAMBDA s : \E r \in rows : r.status = s)
    IN [i \in DOMAIN present |->
          <<present[i],
            LET mine == SetToSeq({r \in rows : r.status = present[i]})
            IN [j \in DOMAIN mine |-> ProjectCourse(mine[j].course, mine[j].e)]>>]

\* A map with all three labels as keys, empty lists included.
FromPairsAllLabels(pairs) ==
    [s \in Range(StatusLabels) |->
        IF \E p \in Range(pairs) : p[1] = s
        THEN (CHOOSE p \in Range(pairs) : p[1] = s)[2] ELSE <<>>]

\* apoc.map.fromPairs(pairs)
FromPairs(pairs) ==
    [s \in {p[1] : p \in Range(pairs)} |-> (CHOOSE p \in Range(pairs) : p[1] = s)[2]]

\* The records of the query: one per matched user that has at least one row.
Query(uid) ==
    SetToSeq({[user |-> [id |-> u], enrolments |-> FromPairs(Pairs(Rows(u)))]
              : u \in {v \in MatchUser(uid) : Rows(v) # {}}})

----------------------------------------------------------------------------
(* getUserEnrolments *)

\* for (let key in enrolments): the keys in the map's order
Keys(enr) == SelectSeq(StatusLabels, LAMBDA s : s \in DOMAIN enr)

\* Loops that stop after the first key.
WorkFirstKeyOnly(enr) ==
    IF Keys(enr) = <<>> THEN <<>>
    ELSE [j \in DOMAIN enr[Keys(enr)[1]] |-> <<Keys(enr)[1], j>>]

\* for (let key in enrolments) for (let course of enrolments[key]): the
\* <<key, index>> pairs the nested loops visit, in order
Work(enr) ==
    Concat([i \in DOMAIN Keys(enr) |->
              [j \in DOMAIN enr[Keys(enr)[i]] |-> <<Keys(enr)[i], j>>]])

Pending == [kind |-> "pending"]
Empty == [kind |-> "empty"]
Rejected(e) == [kind |-> "rejected", error |-> e]
Result(u, enr) == [kind |-> "result", user |-> u, enrolments |-> enr]

\* res.records.length <= 1
RecordsEmptyOffByOne == Len(records) <= 1

\* res.records.length === 0
RecordsEmpty == Len(records) = 0

EngineStart ==
    /\ pc = "call"
    /\ reads = 0
    /\ readResult = "pending"
    /\ records = <<>>
    /\ user = Null
    /\ enrolments = <<>>
    /\ k = 1
    /\ sortLog = <<>>
    /\ outcome = Pending

RouteIdle ==
    /\ route = "none"
    /\ rpc = "idle"
    /\ params = <<>>
    /\ found = <<>>
    /\ nextCalls = <<>>
    /\ renders = 0
    /\ converts = 0

Init ==
    /\ users = StoreUsers
    /\ catalog \in UNION {[S -> SampleGraphs] : S \in SUBSET CourseSlugs}
    /\ enrolmentNodes \in SubsetsUpTo(EnrolmentNodes(DOMAIN catalog), MaxEnrolments)
    /\ id \in RequestIds
    /\ EngineStart
    /\ RouteIdle

\* const res = await read(..., { id }): the call is issued
IssueRead ==
    /\ pc = "call"
    /\ reads' = reads + 1
    /\ pc' = "await"
    /\ UNCHANGED <<users, catalog, enrolmentNodes, id, readResult, records, user,
                   enrolments, k, sortLog, outcome, routeVars>>

\* the read() promise resolves with the query's records
ReadResolve ==
    /\ pc = "await"
    /\ readResult' = "ok"
    /\ records' = Query(id)
    /\ pc' = "check"
    /\ UNCHANGED <<users, catalog, enrolmentNodes, id, reads, user,
                   enrolments, k, sortLog, outcome, routeVars>>

\* A rejection caught and turned into the Empty result.
ReadRejectSwallowed ==
    /\ pc = "await"
    /\ readResult' = "error"
    /\ outcome' = Empty
    /\ pc' = "done"
    /\ UNCHANGED <<users, catalog, enrolmentNodes, id, reads, records, user,
                   enrolments, k, sortLog, routeVars>>

\* the read() promise rejects: the await throws, nothing catches it
ReadReject ==
    /\ pc = "await"
    /\ readResult' = "error"
    /\ outcome' = Rejected("StoreError")
    /\ pc' = "done"
    /\ UNCHANGED <<users, catalog, enrolmentNodes, id, reads, records, user,
                   enrolments, k, sortLog, routeVars>>

\* if ( res.records.length === 0 ) return <EnrolmentsByStatus> {}
ReturnEmpty ==
    /\ pc = "check"
    /\ RecordsEmpty
    /\ outcome' = Empty
    /\ pc' = "done"
    /\ UNCHANGED <<users, catalog, enrolmentNodes, id, reads, readResult, records,
                   user, enrolments, k, sortLog, routeVars>>

\* const user = ...get('user'); const enrolments = ...get('enrolments')
TakeRecord ==
    /\ pc = "check"
    /\ ~RecordsEmpty
    /\ user' = records[1].user
    /\ enrolments' = records[1].enrolments
    /\ k' = 1
    /\ pc' = "loop"
    /\ UNCHANGED <<users, catalog, enrolmentNodes, id, reads, readResult, records,
                   sortLog, outcome, routeVars>>

CurrentKey == Work(enrolments)[k][1]
CurrentIndex == Work(enrolments)[k][2]
CurrentCourse == enrolments[CurrentKey][CurrentIndex]

\* sortCourse(course) returns: the course is reordered in place
SortCourseOk ==
    /\ pc = "loop"
    /\ k <= Len(Work(enrolments))
    /\ sortCourse(CurrentCourse).ok
    /\ enrolments' = [enrolments EXCEPT ![CurrentKey][CurrentIndex] =
                          sortCourse(CurrentCourse).course]
    /\ sortLog' = Append(sortLog, Work(enrolments)[k])
    /\ k' = k + 1
    /\ UNCHANGED <<users, catalog, enrolmentNodes, id, pc, reads, readResult, records,
                   user, outcome, routeVars>>

\* sortCourse(course) throws: nothing in getUserEnrolments catches it
SortCourseThrow ==
    /\ pc = "loop"
    /\ k <= Len(Work(enrolments))
    /\ ~sortCourse(CurrentCourse).ok
    /\ sortLog' = Append(sortLog, Work(enrolments)[k])
    /\ outcome' = Rejected(<<"DataIntegrity", CurrentCourse.slug>>)
    /\ pc' = "done"
    /\ UNCHANGED <<users, catalog, enrolmentNodes, id, reads, readResult, records,
                   user, enrolments, k, routeVars>>

\* return { user, enrolments }
ReturnResult ==
    /\ pc = "loop"
    /\ k > Len(Work(enrolments))
    /\ outcome' = Result(user, enrolments)
    /\ pc' = "done"
    /\ UNCHANGED <<users, catalog, enrolmentNodes, id, reads, readResult, records,
                   user, enrolments, k, sortLog, routeVars>>

Next ==
    \/ IssueRead
    \/ ReadResolve
    \/ ReadReject
    \/ ReturnEmpty
    \/ TakeRecord
    \/ SortCourseOk
    \/ SortCourseThrow
    \/ ReturnResult

Spec == Init /\ [][Next]_vars

\* One course, any ordering relation over at most MaxLessons lessons.
InitOrder ==
    /\ users = StoreUsers
    /\ catalog \in [{CourseName[1]} -> AllGraphs \cup {GraphCrossModule}]
    /\ enrolmentNodes = {}
    /\ id \in RequestIds
    /\ EngineStart
    /\ RouteIdle

SpecOrder == InitOrder /\ [][Next]_vars

----------------------------------------------------------------------------
(* Properties of getUserEnrolments *)

\* The <<label, index>> places of a grouped mapping.
Positions(enr) == UNION {{<<s, j>> : j \in DOMAIN enr[s]} : s \in DOMAIN enr}

\* The enrolments the store holds for the requesting user and course c.
StoredEnrolments(c) == {e \in enrolmentNodes : e.user = id /\ e.course = c}

\* The labels the store's facts give course c for the requesting user.
StoredLabels(c) ==
    IF StoredEnrolments(c) = {} THEN {"available"}
    ELSE {IF e.completed THEN "completed" ELSE "enrolled" : e \in StoredEnrolments(c)}

LabelOfRow(course) ==
    IF course.createdAt = Null THEN "available"
    ELSE IF course.completed = "true" THEN "completed"
    ELSE "enrolled"

AllLessonsFlagged(course) ==
    /\ \E i \in DOMAIN course.modules : course.modules[i].lessons # <<>>
    /\ \A i \in DOMAIN course.modules :
         /\ course.modules[i].completed
         /\ \A j \in DOMAIN course.modules[i].lessons : course.modules[i].lessons[j].completed

\* C1: every course row of the query carries the label its enrolment alone
\* gives: no enrolment, available; a completed enrolment, completed; any other
\* enrolment, enrolled; whatever the module and lesson completion flags are.
C1_StatusFromEnrolmentAlone ==
    records # <<>> =>
        \A pos \in Positions(records[1].enrolments) :
            LET course == records[1].enrolments[pos[1]][pos[2]]
            IN /\ pos[1] = LabelOfRow(course)
               /\ pos[1] \in StoredLabels(course.slug)
               /\ (course.createdAt = Null) = (StoredEnrolments(course.slug) = {})

\* A course all of whose modules and lessons are flagged complete is labelled
\* enrolled, and the result is returned.
C1_Witness ==
    /\ outcome.kind = "result"
    /\ "enrolled" \in DOMAIN outcome.enrolments
    /\ \E j \in DOMAIN outcome.enrolments["enrolled"] :
          AllLessonsFlagged(outcome.enrolments["enrolled"][j])

\* C2: for an unknown user id whose read succeeds, the call returns the Empty
\* result, an object with no `user` and no `enrolments` key; it does not
\* reject and sortCourse is never called.
C2_UnknownUserEmpty ==
    (id \notin users) =>
        /\ sortLog = <<>>
        /\ (pc = "done" /\ readResult = "ok") =>
              /\ outcome.kind = "empty"
              /\ "user" \notin DOMAIN outcome
              /\ "enrolments" \notin DOMAIN outcome

C2_Witness ==
    /\ id \notin users
    /\ pc = "done"
    /\ readResult = "ok"
    /\ outcome = Empty
    /\ DOMAIN catalog # {}

AtMostOneEnrolmentPerCourse ==
    \A c \in DOMAIN catalog : Cardinality(StoredEnrolments(c)) <= 1

\* C3: for a known user with at most one enrolment per course, every course of
\* the catalog is exactly once in the returned mapping, under the label of its
\* classification.
C3_EachCourseOnce ==
    (outcome.kind = "result" /\ AtMostOneEnrolmentPerCourse) =>
        \A c \in DOMAIN catalog :
            /\ Cardinality({pos \in Positions(outcome.enrolments) :
                              outcome.enrolments[pos[1]][pos[2]].slug = c}) = 1
            /\ \A pos \in Positions(outcome.enrolments) :
                  outcome.enrolments[pos[1]][pos[2]].slug = c => pos[1] \in StoredLabels(c)

\* Two courses, one with a completed enrolment and one with none.
C3_Witness ==
    /\ outcome.kind = "result"
    /\ AtMostOneEnrolmentPerCourse
    /\ Cardinality(DOMAIN catalog) = 2
    /\ DOMAIN outcome.enrolments = {"completed", "available"}

GroupsExact(enr) ==
    /\ \A s \in Range(StatusLabels) :
          (s \in DOMAIN enr) <=> (\E c \in DOMAIN catalog : s \in StoredLabels(c))
    /\ DOMAIN enr \subseteq Range(StatusLabels)
    /\ \A s \in DOMAIN enr : enr[s] # <<>>

\* C4: in a non-empty result a label is a key of `enrolments` exactly when a
\* course carries it, and no key maps to an empty list.
C4_NoEmptyGroups ==
    /\ records # <<>> => GroupsExact(records[1].enrolments)
    /\ outcome.kind = "result" => GroupsExact(outcome.enrolments)

\* A result with courses under one label only.
C4_Witness ==
    /\ outcome.kind = "result"
    /\ DOMAIN outcome.enrolments = {"available"}
    /\ Cardinality(DOMAIN catalog) = 2

Malformed(c) == ~sortCourse([modules |-> catalog[c]]).ok

\* C5: when the Order Resolver rejects one course, the call still returns the
\* user's result with the well-formed courses.
C5_FaultContained ==
    (pc = "done" /\ readResult = "ok" /\ id \in users
        /\ (\E c \in DOMAIN catalog : Malformed(c))
        /\ (\E c \in DOMAIN catalog : ~Malformed(c))) =>
        /\ outcome.kind = "result"
        /\ \A c \in DOMAIN catalog :
              ~Malformed(c) =>
                 \E pos \in Positions(outcome.enrolments) :
                    outcome.enrolments[pos[1]][pos[2]].slug = c

\* C6: when a non-empty result is returned, sortCourse has been called once on
\* every course of every group, and every course is returned as sortCourse
\* left it.
C6_AllSortedBeforeReturn ==
    outcome.kind = "result" =>
        /\ \A pos \in Positions(outcome.enrolments) :
              Cardinality({i \in DOMAIN sortLog : sortLog[i] = pos}) = 1
        /\ Len(sortLog) = Cardinality(Positions(outcome.enrolments))
        /\ \A pos \in Positions(outcome.enrolments) :
              outcome.enrolments[pos[1]][pos[2]] =
                 sortCourse(records[1].enrolments[pos[1]][pos[2]]).course

\* A result of two groups in which a course came back reordered.
C6_Witness ==
    /\ outcome.kind = "result"
    /\ Cardinality(DOMAIN outcome.enrolments) >= 2
    /\ \E pos \in Positions(outcome.enrolments) :
          /\ pos[1] # Keys(outcome.enrolments)[1]
          /\ outcome.enrolments[pos[1]][pos[2]] # records[1].enrolments[pos[1]][pos[2]]

\* C7: one call issues exactly one read; when the read fails the call rejects
\* with the read's error, and returns neither a result nor the Empty result.
C7_OneReadFailurePropagates ==
    /\ reads <= 1
    /\ pc # "call" => reads = 1
    /\ readResult = "error" => (pc = "done" /\ outcome = Rejected("StoreError"))

C7_Witness ==
    /\ readResult = "error"
    /\ pc = "done"
    /\ reads = 1

\* C9 as stated: the Empty result is returned only when the user is unknown.
C9_EmptyOnlyWhenUnknown ==
    outcome.kind = "empty" => id \notin users

\* C9, amended: the Empty result is returned only when the user is unknown or
\* the catalog holds no course; for a known user and a catalog of at least one
\* course, what the call returns carries `user` and `enrolments`.
C9_EmptyOnlyUnknownOrNoCourse ==
    /\ outcome.kind = "empty" => (id \notin users \/ DOMAIN catalog = {})
    /\ (pc = "done" /\ id \in users /\ DOMAIN catalog # {} /\ outcome.kind # "rejected") =>
          /\ outcome.kind = "result"
          /\ {"user", "enrolments"} \subseteq DOMAIN outcome
          /\ outcome.user.id = id

\* A known user, a catalog with no course: the Empty result.
C9_Witness ==
    /\ pc = "done"
    /\ id \in users
    /\ DOMAIN catalog = {}
    /\ outcome = Empty

----------------------------------------------------------------------------
(* Properties of the Order Resolver, through getUserEnrolments (SpecOrder) *)

TheCourse == CourseName[1]

StoredLessons == UNION {Range(catalog[TheCourse][i].lessons) : i \in DOMAIN catalog[TheCourse]}

\* The lessons reachable from those of S in at most n NEXT_LESSON steps.
RECURSIVE ReachWithin(_, _)
ReachWithin(S, n) ==
    IF n = 0 THEN S
    ELSE ReachWithin(S \cup {l \in StoredLessons : \E a \in S : a.next = l.slug}, n - 1)

\* Lesson a comes before lesson b on the chain.
Before(a, b) ==
    \E l \in StoredLessons :
        /\ l.slug = a
        /\ l.next # Null
        /\ b \in {x.slug : x \in ReachWithin({y \in StoredLessons : y.slug = l.next},
                                             Cardinality(StoredLessons))}

\* The next-lesson relation is one simple path over every lesson.
SimplePath ==
    /\ StoredLessons # {}
    /\ Cardinality({l \in StoredLessons : l.previous = Null}) = 1
    /\ Cardinality({l \in StoredLessons : l.next = Null}) = 1
    /\ \A l \in StoredLessons : l.next = Null \/ \E x \in StoredLessons : x.slug = l.next
    /\ \A l \in StoredLessons :
          l.previous = Null =>
             ReachWithin({l}, Cardinality(StoredLessons)) = StoredLessons

ReturnedModules == outcome.enrolments["available"][1].modules

Slugs(seq) == [i \in DOMAIN seq |-> seq[i].slug]

\* The lesson of module m that no other lesson of m comes before.
FirstOnChain(m) ==
    CHOOSE a \in Range(Slugs(m.lessons)) : \A b \in Range(Slugs(m.lessons)) : ~Before(b, a)

\* C8: for a course whose next-lesson relation is one simple path over every
\* lesson, the call returns the course with the same modules and lessons, the
\* lessons of each module in chain order, the modules with lessons in the
\* order of their earliest lessons, and every `next` as stored; for
\* M1 = {A, B}, M2 = {C, D} and chain A -> B -> C -> D that is
\* [M1 = [A, B], M2 = [C, D]] with next(B) = C.
C8_ChainOrder ==
    (pc = "done" /\ id \in users /\ readResult = "ok" /\ SimplePath) =>
        /\ outcome.kind = "result"
        /\ Len(ReturnedModules) = Len(catalog[TheCourse])
        /\ \A m \in Range(catalog[TheCourse]) :
              \E r \in Range(ReturnedModules) :
                 /\ r.slug = m.slug
                 /\ Len(r.lessons) = Len(m.lessons)
                 /\ \A l \in Range(m.lessons) :
                       \E x \in Range(r.lessons) :
                          x.slug = l.slug /\ x.next = l.next /\ x.previous = l.previous
        /\ \A i \in DOMAIN ReturnedModules :
              \A a, b \in DOMAIN ReturnedModules[i].lessons :
                 a < b => Before(ReturnedModules[i].lessons[a].slug,
                                 ReturnedModules[i].lessons[b].slug)
        /\ \A i, j \in DOMAIN ReturnedModules :
              (i < j /\ ReturnedModules[i].lessons # <<>> /\ ReturnedModules[j].lessons # <<>>)
                 => Before(FirstOnChain(ReturnedModules[i]), FirstOnChain(ReturnedModules[j]))
        /\ catalog[TheCourse] = GraphCrossModule =>
              /\ Slugs(ReturnedModules) = <<"M1", "M2">>
              /\ Slugs(ReturnedModules[1].lessons) = <<"A", "B">>
              /\ Slugs(ReturnedModules[2].lessons) = <<"C", "D">>
              /\ ReturnedModules[1].lessons[2].next = "C"

\* The cross-module course, stored as M2 = [D, C], M1 = [B, A], is returned.
C8_Witness ==
    /\ outcome.kind = "result"
    /\ catalog[TheCourse] = GraphCrossModule
    /\ SimplePath
    /\ records[1].enrolments["available"][1].modules # ReturnedModules

----------------------------------------------------------------------------
(* The GET handlers of the course router (/:course/:module and             *)
(* /:course/:module/:lesson) and of the category router (/:slug).  One     *)
(* action is the settling of one awaited call and the synchronous code     *)
(* that follows it up to the next await.                                   *)

Undefined == "undefined"
ModuleSlugs == {"m1", "m2"}
LessonSlugs == {"l1", "l2"}
CategorySlugs == {"k1", "k2"}

\* what getCourseWithProgress may resolve with: module slug -> its lessons' slugs
CoursesWithProgress == UNION {[S -> SUBSET LessonSlugs] : S \in SUBSET ModuleSlugs}

\* course.modules.find(module => module.slug === req.params.module)
FindModule(course) == IF params.module \in DOMAIN course THEN params.module ELSE Undefined

\* module!.lessons.find(lesson => lesson.slug === req.params.lesson)
FindLesson(course, module) == IF params.lesson \in course[module] THEN params.lesson ELSE Undefined

EngineIdle ==
    /\ users = {}
    /\ catalog = <<>>
    /\ enrolmentNodes = {}
    /\ id = Null
    /\ EngineStart

InitRoute ==
    /\ EngineIdle
    /\ route \in {"module", "lesson", "category"}
    /\ params \in [module : ModuleSlugs, lesson : LessonSlugs, slug : CategorySlugs]
    /\ rpc = "getUser"
    /\ found = [course |-> <<>>, module |-> Undefined, lesson |-> Undefined]
    /\ nextCalls = <<>>
    /\ renders = 0
    /\ converts = 0

\* const user = await getUser(req)
GetUserResolves ==
    /\ rpc = "getUser"
    /\ rpc' = IF route = "category" THEN "getCategories" ELSE "getCourse"
    /\ UNCHANGED <<engineVars, route, params, found, nextCalls, renders, converts>>

\* an awaited call rejects: catch (e) { next(e) }
AwaitRejects ==
    /\ rpc \in {"getUser", "getCourse", "getCategories", "convert"}
    /\ nextCalls' = Append(nextCalls, <<"Error", rpc>>)
    /\ rpc' = "end"
    /\ UNCHANGED <<engineVars, route, params, found, renders, converts>>

\* /:course/:module: the course resolves and holds the module; the conversion starts
ModuleFound ==
    /\ route = "module" /\ rpc = "getCourse"
    /\ \E course \in CoursesWithProgress :
          /\ FindModule(course) # Undefined
          /\ found' = [found EXCEPT !.course = course, !.module = FindModule(course)]
    /\ converts' = converts + 1
    /\ rpc' = "convert"
    /\ UNCHANGED <<engineVars, route, params, nextCalls, renders>>

\* /:course/:module: module === undefined: next(new NotFoundError(...)) with no
\* return; console.log and the conversion follow
ModuleNotFound ==
    /\ route = "module" /\ rpc = "getCourse"
    /\ \E course \in CoursesWithProgress :
          /\ FindModule(course) = Undefined
          /\ found' = [found EXCEPT !.course = course]
    /\ nextCalls' = Append(nextCalls, <<"NotFoundError", "module">>)
    /\ converts' = converts + 1
    /\ rpc' = "convert"
    /\ UNCHANGED <<engineVars, route, params, renders>>

\* /:course/:module: the conversion resolves; res.render('course/module', ...),
\* where ...module of an undefined module spreads nothing
ModuleRender ==
    /\ route = "module" /\ rpc = "convert"
    /\ renders' = renders + 1
    /\ rpc' = "end"
    /\ UNCHANGED <<engineVars, route, params, found, nextCalls, converts>>

\* /:course/:module/:lesson: module and lesson are found; the conversion starts
LessonFound ==
    /\ route = "lesson" /\ rpc = "getCourse"
    /\ \E course \in CoursesWithProgress :
          /\ FindModule(course) # Undefined
          /\ FindLesson(course, FindModule(course)) # Undefined
          /\ found' = [course |-> course, module |-> FindModule(course),
                       lesson |-> FindLesson(course, FindModule(course))]
    /\ converts' = converts + 1
    /\ rpc' = "convert"
    /\ UNCHANGED <<engineVars, route, params, nextCalls, renders>>

\* /:course/:module/:lesson: module === undefined: next(new NotFoundError(...))
\* with no return; module!.lessons then throws a TypeError, caught: next(e)
LessonModuleNotFound ==
    /\ route = "lesson" /\ rpc = "getCourse"
    /\ \E course \in CoursesWithProgress :
          /\ FindModule(course) = Undefined
          /\ found' = [found EXCEPT !.course = course]
    /\ nextCalls' = nextCalls \o <<<<"NotFoundError", "module">>, <<"TypeError", "module!.lessons">>>>
    /\ rpc' = "end"
    /\ UNCHANGED <<engineVars, route, params, renders, converts>>

\* /:course/:module/:lesson: lesson === undefined: next(new NotFoundError(...))
\* with no return; the conversion follows
LessonNotFound ==
    /\ route = "lesson" /\ rpc = "getCourse"
    /\ \E course \in CoursesWithProgress :
          /\ FindModule(course) # Undefined
          /\ FindLesson(course, FindModule(course)) = Undefined
          /\ found' = [found EXCEPT !.course = course, !.module = FindModule(course)]
    /\ nextCalls' = Append(nextCalls, <<"NotFoundError", "lesson">>)
    /\ converts' = converts + 1
    /\ rpc' = "convert"
    /\ UNCHANGED <<engineVars, route, params, renders>>

\* /:course/:module/:lesson: the conversion resolves; res.render('course/lesson', ...)
LessonRender ==
    /\ route = "lesson" /\ rpc = "convert"
    /\ found.lesson # Undefined
    /\ renders' = renders + 1
    /\ rpc' = "end"
    /\ UNCHANGED <<engineVars, route, params, found, nextCalls, converts>>

\* /:course/:module/:lesson: the conversion resolves; lesson!.completed of an
\* undefined lesson throws a TypeError before res.render is called, caught: next(e)
LessonRenderThrows ==
    /\ route = "lesson" /\ rpc = "convert"
    /\ found.lesson = Undefined
    /\ nextCalls' = Append(nextCalls, <<"TypeError", "lesson!.completed">>)
    /\ rpc' = "end"
    /\ UNCHANGED <<engineVars, route, params, found, renders, converts>>

\* /:slug: if (!category) return next(new NotFoundError(...))
CategoryNotFound ==
    /\ route = "category" /\ rpc = "getCategories"
    /\ \E flattened \in SUBSET CategorySlugs :
          /\ params.slug \notin flattened
          /\ found' = [found EXCEPT !.course = flattened]
    /\ nextCalls' = Append(nextCalls, <<"NotFoundError", "category">>)
    /\ rpc' = "end"
    /\ UNCHANGED <<engineVars, route, params, renders, converts>>

\* /:slug: the category is found; res.render('course/list', ...)
CategoryRender ==
    /\ route = "category" /\ rpc = "getCategories"
    /\ \E flattened \in SUBSET CategorySlugs :
          /\ params.slug \in flattened
          /\ found' = [found EXCEPT !.course = flattened]
    /\ renders' = renders + 1
    /\ rpc' = "end"
    /\ UNCHANGED <<engineVars, route, params, nextCalls, converts>>

NextRoute ==
    \/ GetUserResolves
    \/ AwaitRejects
    \/ ModuleFound
    \/ ModuleNotFound
    \/ ModuleRender
    \/ LessonFound
    \/ LessonModuleNotFound
    \/ LessonNotFound
    \/ LessonRender
    \/ LessonRenderThrows
    \/ CategoryNotFound
    \/ CategoryRender

SpecRoute == InitRoute /\ [][NextRoute]_vars

\* C10: a handling of GET /:course/:module or GET /:course/:module/:lesson
\* finishes the request exactly once, by one render or one next(error); after
\* next(NotFoundError) for a missing module or lesson nothing else runs.
C10_FinishedExactlyOnce ==
    route \in {"module", "lesson"} =>
        /\ renders + Len(nextCalls) <= 1
        /\ rpc = "end" => renders + Len(nextCalls) = 1
        /\ (\E i \in DOMAIN nextCalls : nextCalls[i][1] = "NotFoundError") =>
              (rpc = "end" /\ converts = 0 /\ renders = 0)

====
